---- MODULE Spec2Model ----
(***************************************************************************)
(* Baila Kids admin: the Student / ClassSection / Enrollment tables, the   *)
(* /api/admin/students, /api/admin/enrollment and /api/admin/sections      *)
(* handlers, and the admin page's client state (students, sections) with   *)
(* handleMoveSection, handleStatusUpdate and calculateOwed.                *)
(***************************************************************************)
EXTENDS Integers, Sequences, FiniteSets, TLC

VARIABLES
    student,        \* table "Student": id -> row
    classSection,   \* table "ClassSection": id -> row
    enrollment,     \* table "Enrollment": sequence of rows (physical order)
    resp,           \* the last HTTP exchange: request, status and body
    students,       \* AdminPage state `students` (sequence of views)
    sections,       \* AdminPage state `sections` (sequence of SectionMeta)
    effects,        \* mount effects of AdminPage that have not run yet
    owedArg,        \* the Student view calculateOwed is applied to
    owedResult,     \* <<>>, or <<amount>> once calculateOwed(owedArg) returned
    calls,          \* enrollment PUT requests the server is working on
    pendingMove,    \* StudentsTable state `pendingMove`: id -> {day, label}
    movingId,       \* StudentsTable state `movingId`
    moveCall,       \* the Save Change clicks that await onMoveSection
    pendingStatus,  \* StudentsTable state `pendingStatus`: id -> status
    savingId,       \* StudentsTable state `savingId`
    statusCall      \* the Save clicks that await onStatusUpdate

\* The state of StudentsTable's editors.
tableState == <<pendingMove, movingId, moveCall, pendingStatus, savingId,
                statusCall>>

vars == <<student, classSection, enrollment, resp, students, sections,
          effects, owedArg, owedResult, calls, tableState>>

-----------------------------------------------------------------------------
(* Values *)

\* JavaScript null / undefined in a string-valued position.
null == "null"
undefined == "undefined"

\* SQL NULL in a timestamp column (a Date that is null or invalid).
NoDate == 0

StudentIds == {"s1", "s2"}
Locations == {"KATY", "SUGARLAND"}
Labels == {"A", "B"}
WeekDays == {"Monday", "Tuesday", "Wednesday", "Thursday", "Friday"}
PaymentStatuses == {"PENDING", "PAID", "FAILED"}
Frequencies == {"ONCE_A_WEEK", "TWICE_A_WEEK"}

\* Bound: the Enrollment table starts with at most this many rows.
MaxEnroll == 2

\* Bound: the enrollment PUT requests the server works on at the same time.
MaxCalls == 2

\* Bound: the Save / Save Change clicks whose request is still awaited.
MaxClicks == 2

\* Date.prototype.toISOString on the timestamps of the model (1, 2, 3).
IsoOf == <<"2026-01-12T00:00:00.000Z", "2026-01-15T00:00:00.000Z",
           "2026-01-16T00:00:00.000Z">>

ToISO(t) == IsoOf[t]

\* new Date(iso).getTime()
FromISO(iso) == CHOOSE t \in DOMAIN IsoOf : IsoOf[t] = iso

\* String.prototype.trim on the day texts of the model.
Trim(d) ==
    CASE d = " Monday" -> "Monday"
      [] d = "Monday " -> "Monday"
      [] OTHER -> d

\* A JavaScript truthiness test of a string | null | undefined.
Truthy(x) == x # null /\ x # undefined /\ x # ""

RECURSIVE SeqMin(_)
SeqMin(s) ==
    IF Len(s) = 1 THEN s[1]
    ELSE LET m == SeqMin(Tail(s)) IN IF s[1] <= m THEN s[1] ELSE m

SeqToSet(s) == {s[i] : i \in DOMAIN s}

\* All orders in which the rows of a sequence can be delivered.
RECURSIVE PermsOf(_, _)
PermsOf(s, idx) ==
    IF idx = {} THEN {<<>>}
    ELSE UNION {{<<s[i]>> \o rest : rest \in PermsOf(s, idx \ {i})} :
                i \in idx}

Perms(s) == PermsOf(s, DOMAIN s)

-----------------------------------------------------------------------------
(* GET /api/admin/students *)

DAY_ORDER == [Monday |-> 1, Tuesday |-> 2, Wednesday |-> 3, Thursday |-> 4,
              Friday |-> 5, Saturday |-> 6, Sunday |-> 7]

\* DAY_ORDER[a] ?? 99
DayRank(d) == IF d \in DOMAIN DAY_ORDER THEN DAY_ORDER[d] ELSE 99

isDayKey(x) ==
    x = "Monday" \/ x = "Tuesday" \/ x = "Wednesday" \/ x = "Thursday"

\* Array.prototype.sort with the DAY_ORDER comparator: a stable sort.
RECURSIVE InsertByRank(_, _)
InsertByRank(x, s) ==
    IF s = <<>> THEN <<x>>
    ELSE IF DayRank(x) < DayRank(s[1]) THEN <<x>> \o s
    ELSE <<s[1]>> \o InsertByRank(x, Tail(s))

RECURSIVE SortDays(_)
SortDays(s) ==
    IF s = <<>> THEN <<>>
    ELSE InsertByRank(s[Len(s)], SortDays(SubSeq(s, 1, Len(s) - 1)))

\* The raw join: Enrollment JOIN ClassSection WHERE session = 'SPRING_2026',
\* in the table's physical order.
JoinedRows(enr, secs) ==
    LET keep(e) == e.sectionId \in DOMAIN secs
                   /\ secs[e.sectionId].session = "SPRING_2026"
        kept == SelectSeq(enr, keep)
    IN [i \in DOMAIN kept |->
          [studentid |-> kept[i].studentId,
           day |-> secs[kept[i].sectionId].day,
           label |-> secs[kept[i].sectionId].label,
           startdate |-> secs[kept[i].sectionId].startDate]]

EmptyAgg ==
    [days |-> <<>>, starts |-> <<>>, labels |-> [A |-> 0, B |-> 0],
     byDay |-> <<>>]

MapSet(m, k, v) == [x \in DOMAIN m \cup {k} |-> IF x = k THEN v ELSE m[x]]

\* A byDay that keeps the start date of the row met last.
ByDayStepLastWins(byDay, day, iso) == MapSet(byDay, day, iso)

\* byDay.set(r.day, iso) when there is no entry or iso is earlier.
ByDayStep(byDay, day, iso) ==
    IF day \notin DOMAIN byDay \/ FromISO(iso) < FromISO(byDay[day])
    THEN MapSet(byDay, day, iso)
    ELSE byDay

\* One iteration of `for (const r of joined)`.
AggStep(byStudent, r) ==
    IF ~Truthy(r.studentid) THEN byStudent
    ELSE
      LET entry == IF r.studentid \in DOMAIN byStudent
                   THEN byStudent[r.studentid] ELSE EmptyAgg
          days1 == IF Truthy(r.day) /\ Trim(r.day) \notin SeqToSet(entry.days)
                   THEN Append(entry.days, Trim(r.day)) ELSE entry.days
          labels1 == IF r.label = "A" \/ r.label = "B"
                     THEN [entry.labels EXCEPT ![r.label] = @ + 1]
                     ELSE entry.labels
          valid == r.startdate # NoDate
          starts1 == IF valid THEN Append(entry.starts, r.startdate)
                     ELSE entry.starts
          byDay1 == IF valid /\ Truthy(r.day)
                    THEN ByDayStep(entry.byDay, r.day, ToISO(r.startdate))
                    ELSE entry.byDay
      IN MapSet(byStudent, r.studentid,
                [days |-> days1, starts |-> starts1, labels |-> labels1,
                 byDay |-> byDay1])

RECURSIVE Aggregate(_)
Aggregate(joined) ==
    IF joined = <<>> THEN <<>>
    ELSE AggStep(Aggregate(SubSeq(joined, 1, Len(joined) - 1)),
                 joined[Len(joined)])

\* A selectedDays that is left in the order it was collected or stored in.
ViewSelectedDaysUnsorted(s, byStudent) ==
    IF s.id \in DOMAIN byStudent THEN byStudent[s.id].days ELSE s.selectedDays

\* selectedDays of the DTO: from the enrollments, else Student.selectedDays.
ViewSelectedDays(s, byStudent) ==
    SortDays(IF s.id \in DOMAIN byStudent THEN byStudent[s.id].days
             ELSE s.selectedDays)

SessionLabelOf(labels) ==
    IF labels.A >= labels.B THEN (IF labels.A # 0 THEN "A" ELSE null) ELSE "B"

ViewSessionLabel(s, byStudent) ==
    IF s.id \in DOMAIN byStudent THEN SessionLabelOf(byStudent[s.id].labels)
    ELSE null

EarliestTs(s, byStudent) ==
    IF s.id \in DOMAIN byStudent /\ Len(byStudent[s.id].starts) > 0
    THEN SeqMin(byStudent[s.id].starts)
    ELSE s.startDate

ViewStartDatesByDay(s, byStudent) ==
    IF s.id \in DOMAIN byStudent
    THEN LET byDay == byStudent[s.id].byDay
         IN [d \in {x \in DOMAIN byDay : isDayKey(x)} |-> byDay[d]]
    ELSE <<>>

\* A frequency that asks for more than two days.
ViewFrequencyOverTwo(selectedDays) ==
    IF Len(selectedDays) > 2 THEN "TWICE_A_WEEK" ELSE "ONCE_A_WEEK"

ViewFrequency(selectedDays) ==
    IF Len(selectedDays) >= 2 THEN "TWICE_A_WEEK" ELSE "ONCE_A_WEEK"

\* One element of `students.map((s) => ...)`.
ComposeDTO(s, byStudent) ==
    LET selectedDays == ViewSelectedDays(s, byStudent)
    IN [id |-> s.id,
        location |-> s.location,
        frequency |-> ViewFrequency(selectedDays),
        selectedDays |-> selectedDays,
        startDate |-> ToISO(EarliestTs(s, byStudent)),
        sessionLabel |-> ViewSessionLabel(s, byStudent),
        startDatesByDay |-> ViewStartDatesByDay(s, byStudent),
        paymentStatus |-> s.paymentStatus,
        paymentMethod |-> s.paymentMethod]

\* prisma.student.findMany({where: {session: 'SPRING_2026'},
\* orderBy: {studentName: 'asc'}}): ids are in studentName order.
StudentOrder == <<"s1", "s2">>

FindStudents(tbl) ==
    LET inSession(id) == id \in DOMAIN tbl /\ tbl[id].session = "SPRING_2026"
        ids == SelectSeq(StudentOrder, inSession)
    IN [i \in DOMAIN ids |-> tbl[ids[i]]]

\* The body of the 200 answer, for one delivery order of the join rows.
StudentsData(tbl, joined) ==
    LET rows == FindStudents(tbl)
        byStudent == Aggregate(joined)
    IN [i \in DOMAIN rows |-> ComposeDTO(rows[i], byStudent)]

-----------------------------------------------------------------------------
(* PUT /api/admin/enrollment *)

\* A lookup that falls back on every section when none matches.
TargetSectionsOrAny(secs, loc, day, label) ==
    LET hits == {id \in DOMAIN secs : /\ secs[id].location = loc
                                       /\ secs[id].day = day
                                       /\ secs[id].label = label}
    IN IF hits = {} THEN DOMAIN secs ELSE hits

\* SELECT id FROM "ClassSection" WHERE location, day, label match (every
\* session); LIMIT 1 then returns any one of these.
TargetSections(secs, loc, day, label) ==
    {id \in DOMAIN secs : /\ secs[id].location = loc
                          /\ secs[id].day = day
                          /\ secs[id].label = label}

\* UPDATE "Enrollment" SET "sectionId" = target WHERE "studentId" = id
UpdateEnrollment(enr, studentId, targetId) ==
    [i \in DOMAIN enr |->
        IF enr[i].studentId = studentId
        THEN [enr[i] EXCEPT !.sectionId = targetId]
        ELSE enr[i]]

\* The number of rows the UPDATE reports.
UpdatedCount(enr, studentId) ==
    Cardinality({i \in DOMAIN enr : enr[i].studentId = studentId})

\* INSERT INTO "Enrollment" (...) VALUES (gen_random_uuid(), id, target, 'ACTIVE')
InsertEnrollment(enr, studentId, targetId) ==
    Append(enr, [studentId |-> studentId, sectionId |-> targetId,
                 status |-> "ACTIVE"])

\* Every outcome the handler can produce for one request: the status, the
\* body and the Enrollment table it leaves.
EnrollmentPut(method, body, tbl, secs, enr) ==
    IF method # "PUT"
    THEN {[status |-> 405, body |-> [error |-> "Method not allowed"],
           enrollment |-> enr]}
    ELSE IF ~Truthy(body.studentId) \/ ~Truthy(body.day) \/ ~Truthy(body.label)
    THEN {[status |-> 400,
           body |-> [error |-> "Missing studentId, day, or label"],
           enrollment |-> enr]}
    ELSE IF body.studentId \notin DOMAIN tbl
    THEN {[status |-> 404, body |-> [error |-> "Student not found"],
           enrollment |-> enr]}
    ELSE
      LET targets == TargetSections(secs, tbl[body.studentId].location,
                                    body.day, body.label)
      IN IF targets = {}
         THEN {[status |-> 404,
                body |-> [error |->
                  "Target section not found for given location/day/label"],
                enrollment |-> enr]}
         ELSE {[status |-> 200,
                body |-> [ok |-> TRUE, sectionId |-> targetId],
                enrollment |->
                  IF UpdatedCount(enr, body.studentId) = 0
                  THEN InsertEnrollment(enr, body.studentId, targetId)
                  ELSE UpdateEnrollment(enr, body.studentId, targetId)]
               : targetId \in targets}

-----------------------------------------------------------------------------
(* GET /api/admin/sections *)

\* ORDER BY location ASC, day ASC, label ASC on the texts of the model.
LocRank(l) == IF l = "KATY" THEN 1 ELSE 2
DayAlphaRank(d) ==
    CASE d = "Friday" -> 1 [] d = "Monday" -> 2 [] d = "Thursday" -> 3
      [] d = "Tuesday" -> 4 [] OTHER -> 5
LabelRank(l) == IF l = "A" THEN 1 ELSE 2

SectionBefore(a, b) ==
    \/ LocRank(a.location) < LocRank(b.location)
    \/ /\ a.location = b.location
       /\ \/ DayAlphaRank(a.day) < DayAlphaRank(b.day)
          \/ a.day = b.day /\ LabelRank(a.label) < LabelRank(b.label)

\* The orders the SELECT may deliver the sections in: rows that tie on
\* (location, day, label) come in either order.
RECURSIVE OrdersOf(_, _)
OrdersOf(secs, ids) ==
    IF ids = {} THEN {<<>>}
    ELSE LET first == {m \in ids :
                         \A o \in ids : ~SectionBefore(secs[o], secs[m])}
         IN UNION {{<<m>> \o rest : rest \in OrdersOf(secs, ids \ {m})} :
                   m \in first}

SectionOrders(secs) == OrdersOf(secs, DOMAIN secs)

\* A count over the rows of every status.
EnrolledAnyStatus(enr, id) ==
    Cardinality({i \in DOMAIN enr : enr[i].sectionId = id})

\* countMap.get(s.id) ?? 0
Enrolled(enr, id) ==
    Cardinality({i \in DOMAIN enr :
                    enr[i].sectionId = id /\ enr[i].status = "ACTIVE"})

\* CAPS is empty and the SELECT yields capacity NULL for every row.
SectionCapacity(s) == null

\* An isFull that needs no capacity: full as soon as one student is enrolled.
SectionIsFullWhenAnyEnrolled(enrolledCount, capacity) == enrolledCount >= 1

SectionIsFull(enrolledCount, capacity) ==
    IF capacity # null THEN enrolledCount >= capacity ELSE FALSE

SectionDTO(s, enr) ==
    [id |-> s.id, location |-> s.location, day |-> s.day, label |-> s.label,
     startDate |-> IF s.startDate = NoDate THEN null ELSE ToISO(s.startDate),
     enrolled |-> Enrolled(enr, s.id),
     capacity |-> SectionCapacity(s),
     isFull |-> SectionIsFull(Enrolled(enr, s.id), SectionCapacity(s))]

SectionsData(secs, enr, order) ==
    [i \in DOMAIN order |-> SectionDTO(secs[order[i]], enr)]

-----------------------------------------------------------------------------
(* The admin page (client) *)

dayOptionsFor(loc) ==
    IF loc = "KATY" THEN <<"Tuesday", "Wednesday">> ELSE <<"Monday", "Thursday">>

\* What Array.prototype.find answers when no element matches: undefined.
NoSectionMeta == [id |-> undefined]

\* sections.find(sec => sec.location = loc && sec.day = day && sec.label = label)
FindSectionMeta(metas, loc, day, label) ==
    LET hits == {i \in DOMAIN metas : /\ metas[i].location = loc
                                      /\ metas[i].day = day
                                      /\ metas[i].label = label}
    IN IF hits = {} THEN NoSectionMeta
       ELSE metas[CHOOSE i \in hits : \A j \in hits : i <= j]

\* [day, ...(s.selectedDays || []).filter(d => d !== day)].slice(0, 2)
NextDays(s, day) ==
    IF s.frequency = "ONCE_A_WEEK" THEN <<day>>
    ELSE LET keepDay(d) == d # day
             all == <<day>> \o SelectSeq(s.selectedDays, keepDay)
         IN SubSeq(all, 1, IF Len(all) < 2 THEN Len(all) ELSE 2)

\* sectionMeta?.startDate ?? s.startDate
MovedStartDate(s, meta) ==
    IF meta = NoSectionMeta THEN s.startDate
    ELSE IF meta.startDate = null THEN s.startDate
    ELSE meta.startDate

\* The optimistic update of one student in handleMoveSection.
MovedStudent(s, metas, day, label) ==
    LET meta == FindSectionMeta(metas, s.location, day, label)
    IN [s EXCEPT !.selectedDays = NextDays(s, day),
                 !.sessionLabel = label,
                 !.startDate = MovedStartDate(s, meta),
                 !.startDatesByDay =
                     MapSet(s.startDatesByDay, day, MovedStartDate(s, meta))]

\* setStudents(prev => prev.map(...)) of handleMoveSection.
MoveInState(prev, metas, studentId, day, label) ==
    [i \in DOMAIN prev |->
        IF prev[i].id # studentId THEN prev[i]
        ELSE MovedStudent(prev[i], metas, day, label)]

\* The day/section choices the section editor can submit for a student: the
\* default (first selected day, current label or A) or any pending choice made
\* with the two selectors.
MoveChoices(s) ==
    LET defaultDay == IF Len(s.selectedDays) > 0 THEN s.selectedDays[1]
                      ELSE undefined
        defaultLabel == IF s.sessionLabel = null THEN "A" ELSE s.sessionLabel
        days == SeqToSet(dayOptionsFor(s.location))
    IN {[day |-> defaultDay, label |-> defaultLabel]}
       \cup {[day |-> d, label |-> l] : d \in days, l \in Labels}
       \cup {[day |-> defaultDay, label |-> l] : l \in Labels}

\* The static price table; a row has `both` and the days taught there.
prices ==
    [KATY |->
       [A |-> [Tuesday |-> 245, Wednesday |-> 245, both |-> 450],
        B |-> [Tuesday |-> 245, Wednesday |-> 245, both |-> 450]],
     SUGARLAND |->
       [A |-> [Monday |-> 230, Thursday |-> 245, both |-> 450],
        B |-> [Monday |-> 195, Thursday |-> 195, both |-> 380]]]

\* The calculateOwed of a table that leaves the PAID test out (as tuitionFor).
calculateOwedIgnoringPaid(s) ==
    LET session == IF s.sessionLabel = null \/ s.sessionLabel = undefined
                   THEN "A" ELSE s.sessionLabel
        row == prices[s.location][session]
    IN IF s.frequency = "ONCE_A_WEEK"
       THEN LET day == IF Len(s.selectedDays) > 0 THEN s.selectedDays[1]
                       ELSE "Monday"
            IN IF day \in DOMAIN row THEN row[day] ELSE 0
       ELSE row.both

calculateOwed(s) ==
    IF s.paymentStatus = "PAID" THEN 0
    ELSE
      LET session == IF s.sessionLabel = null \/ s.sessionLabel = undefined
                     THEN "A" ELSE s.sessionLabel
          row == prices[s.location][session]
      IN IF s.frequency = "ONCE_A_WEEK"
         THEN LET day == IF Len(s.selectedDays) > 0 THEN s.selectedDays[1]
                         ELSE "Monday"
              IN IF day \in DOMAIN row THEN row[day] ELSE 0
         ELSE row.both

-----------------------------------------------------------------------------
(* PUT /api/admin/students *)

\* A patch that writes paymentMethod even when the body has none.
StudentPatchAlwaysMethod(row, body) ==
    [row EXCEPT
       !.paymentStatus = IF body.paymentStatus # undefined
                         THEN body.paymentStatus ELSE @,
       !.paymentMethod = IF body.paymentMethod # undefined
                         THEN body.paymentMethod ELSE null]

\* prisma.student.update({where: {id}, data: patch}) on the row found.
StudentPatch(row, body) ==
    [row EXCEPT
       !.paymentStatus = IF body.paymentStatus # undefined
                         THEN body.paymentStatus ELSE @,
       !.paymentMethod = IF body.paymentMethod # undefined
                         THEN body.paymentMethod ELSE @]

\* The status, body and Student table of one PUT. An unknown id, or a status
\* that is no PaymentStatus, makes prisma throw: the catch answers 500.
StudentsPut(body, tbl) ==
    IF ~Truthy(body.id)
    THEN [status |-> 400, body |-> [error |-> "Missing id"], student |-> tbl]
    ELSE IF \/ body.id \notin DOMAIN tbl
            \/ body.paymentStatus \notin PaymentStatuses \cup {undefined}
    THEN [status |-> 500, body |-> [error |-> "Server error"], student |-> tbl]
    ELSE [status |-> 200, body |-> [ok |-> TRUE],
          student |-> [tbl EXCEPT ![body.id] = StudentPatch(@, body)]]

-----------------------------------------------------------------------------
(* State *)

Catalogue ==
    [c1 |-> [id |-> "c1", location |-> "SUGARLAND", day |-> "Monday",
             label |-> "A", startDate |-> 2, session |-> "SPRING_2026"],
     c2 |-> [id |-> "c2", location |-> "SUGARLAND", day |-> "Monday",
             label |-> "B", startDate |-> 3, session |-> "SPRING_2026"],
     c3 |-> [id |-> "c3", location |-> "SUGARLAND", day |-> "Thursday",
             label |-> "A", startDate |-> 3, session |-> "SPRING_2026"],
     c4 |-> [id |-> "c4", location |-> "SUGARLAND", day |-> "Friday",
             label |-> "B", startDate |-> 1, session |-> "SPRING_2026"],
     c5 |-> [id |-> "c5", location |-> "SUGARLAND", day |-> "Monday",
             label |-> "A", startDate |-> 1, session |-> "FALL_2025"],
     c6 |-> [id |-> "c6", location |-> "KATY", day |-> "Tuesday",
             label |-> "A", startDate |-> NoDate, session |-> "SPRING_2026"]]

InitStudents ==
    {[s1 |-> [id |-> "s1", location |-> "SUGARLAND",
              frequency |-> "TWICE_A_WEEK",
              selectedDays |-> <<"Thursday", "Monday">>, startDate |-> 2,
              paymentStatus |-> "PENDING", paymentMethod |-> null,
              session |-> "SPRING_2026"],
      s2 |-> [id |-> "s2", location |-> "KATY",
              frequency |-> "ONCE_A_WEEK",
              selectedDays |-> <<"Tuesday">>, startDate |-> 1,
              paymentStatus |-> "PENDING", paymentMethod |-> null,
              session |-> ses]] : ses \in {"SPRING_2026", "FALL_2025"}}

\* Enrollment rows the registration site can have written: a student in a
\* section of the student's own location; INACTIVE stands for any status
\* other than ACTIVE (the sections handler counts only status = 'ACTIVE').
EnrollmentRows(tbl, secs) ==
    {[studentId |-> id, sectionId |-> c, status |-> st] :
        id \in DOMAIN tbl, c \in DOMAIN secs, st \in {"ACTIVE", "INACTIVE"}}

\* The rows are drawn in one physical order per multiset of rows (students in
\* name order, then sections in id order): the handlers never read the
\* physical order except through the join, whose delivery order is free.
SectionOrder == <<"c1", "c2", "c3", "c4", "c5", "c6">>

IndexIn(seq, x) == CHOOSE i \in DOMAIN seq : seq[i] = x

RowBefore(a, b) ==
    LET sa == IndexIn(StudentOrder, a.studentId)
        sb == IndexIn(StudentOrder, b.studentId)
        ca == IndexIn(SectionOrder, a.sectionId)
        cb == IndexIn(SectionOrder, b.sectionId)
    IN \/ sa < sb
       \/ sa = sb /\ ca < cb
       \/ sa = sb /\ ca = cb /\ a.status = "ACTIVE" /\ b.status # "ACTIVE"

InitEnrollments(tbl, secs) ==
    LET rows == {r \in EnrollmentRows(tbl, secs) :
                    secs[r.sectionId].location = tbl[r.studentId].location}
    IN {e \in UNION {[1..n -> rows] : n \in 0..MaxEnroll} :
          \A i, j \in DOMAIN e : i < j => ~RowBefore(e[j], e[i])}

NoResp == [op |-> "none", req |-> <<>>, status |-> 0, body |-> <<>>]

NoView == [id |-> "none"]

\* No request at work.
NoCall == [pc |-> "idle"]

\* useState({}) / useState(null) of StudentsTable, and a server at rest.
TableInit ==
    /\ calls = [c \in 1..MaxCalls |-> NoCall]
    /\ pendingMove = <<>>
    /\ movingId = null
    /\ moveCall = <<>>
    /\ pendingStatus = <<>>
    /\ savingId = null
    /\ statusCall = <<>>

Init ==
    /\ student \in InitStudents
    /\ classSection = Catalogue
    /\ enrollment \in InitEnrollments(student, classSection)
    /\ resp = NoResp
    /\ students = <<>>
    /\ sections = <<>>
    /\ effects = {"students", "sections"}
    /\ owedArg = NoView
    /\ owedResult = <<>>
    /\ TableInit

-----------------------------------------------------------------------------
(* Actions *)

\* GET /api/admin/students from any client; the join rows arrive in any order.
StudentsGET ==
    /\ \E joined \in Perms(JoinedRows(enrollment, classSection)) :
          resp' = [op |-> "GET /api/admin/students", req |-> <<>>,
                   status |-> 200, body |-> StudentsData(student, joined)]
    /\ UNCHANGED <<student, classSection, enrollment, students, sections,
                   effects, owedArg, owedResult, calls, tableState>>

\* The first mount effect of AdminPage: load and store the students.
LoadStudents ==
    /\ "students" \in effects
    /\ \E joined \in Perms(JoinedRows(enrollment, classSection)) :
          /\ resp' = [op |-> "GET /api/admin/students", req |-> <<>>,
                      status |-> 200, body |-> StudentsData(student, joined)]
          /\ students' = StudentsData(student, joined)
    /\ effects' = effects \ {"students"}
    /\ UNCHANGED <<student, classSection, enrollment, sections, owedArg,
                   owedResult, calls, tableState>>

\* The mount effect that loads the section metadata.
LoadSections ==
    /\ "sections" \in effects
    /\ \E order \in SectionOrders(classSection) :
          /\ resp' = [op |-> "GET /api/admin/sections", req |-> <<>>,
                      status |-> 200,
                      body |-> SectionsData(classSection, enrollment, order)]
          /\ sections' = SectionsData(classSection, enrollment, order)
    /\ effects' = effects \ {"sections"}
    /\ UNCHANGED <<student, classSection, enrollment, students, owedArg,
                   owedResult, calls, tableState>>

\* Save Change on a student's row: handleMoveSection(studentId, day, label).
\* axios rejects on any status other than 2xx, and the state is then kept.
HandleMoveSection ==
    \E i \in DOMAIN students :
      \E choice \in MoveChoices(students[i]) :
        LET body == [studentId |-> students[i].id, day |-> choice.day,
                     label |-> choice.label]
        IN \E out \in EnrollmentPut("PUT", body, student, classSection,
                                    enrollment) :
             /\ enrollment' = out.enrollment
             /\ resp' = [op |-> "PUT /api/admin/enrollment", req |-> body,
                         status |-> out.status, body |-> out.body]
             /\ students' = IF out.status = 200
                            THEN MoveInState(students, sections, body.studentId,
                                             body.day, body.label)
                            ELSE students
             /\ UNCHANGED <<student, classSection, sections, effects, owedArg,
                            owedResult, calls, tableState>>

\* PUT /api/admin/students with any body.
StudentsPUT ==
    \E id \in StudentIds \cup {undefined, "s9"},
       st \in PaymentStatuses \cup {undefined, "BOGUS"},
       pm \in {undefined, null, "CASH"} :
      LET body == [id |-> id, paymentStatus |-> st, paymentMethod |-> pm]
          out == StudentsPut(body, student)
      IN /\ student' = out.student
         /\ resp' = [op |-> "PUT /api/admin/students", req |-> body,
                     status |-> out.status, body |-> out.body]
         /\ UNCHANGED <<classSection, enrollment, students, sections, effects,
                        owedArg, owedResult, calls, tableState>>

\* A render of a student's expanded row: `Owes: ${calculateOwed(s)}`.
CalculateOwed ==
    /\ owedResult = <<>>
    /\ owedResult' = <<calculateOwed(owedArg)>>
    /\ UNCHANGED <<student, classSection, enrollment, resp, students, sections,
                   effects, owedArg, calls, tableState>>

Next ==
    \/ StudentsGET
    \/ LoadStudents
    \/ LoadSections
    \/ HandleMoveSection

Spec == Init /\ [][Next]_vars

\* The payment requests, over a table of at most one enrollment row.
InitPay ==
    /\ student \in InitStudents
    /\ classSection = Catalogue
    /\ enrollment \in {e \in InitEnrollments(student, classSection) :
                          Len(e) <= 1}
    /\ resp = NoResp
    /\ students = <<>>
    /\ sections = <<>>
    /\ effects = {"students", "sections"}
    /\ owedArg = NoView
    /\ owedResult = <<>>
    /\ TableInit

NextPay ==
    \/ StudentsPUT
    \/ StudentsGET

SpecPay == InitPay /\ [][NextPay]_vars

\* The Student views calculateOwed is rendered for: what the students GET
\* and handleMoveSection can leave in the page's state.
OwedInputs ==
    LET daySeqs == {<<>>} \cup {<<d>> : d \in WeekDays}
                   \cup {<<"Monday", "Thursday">>, <<"Tuesday", "Wednesday">>}
    IN {v \in [id : {"s1"}, location : Locations, frequency : Frequencies,
               selectedDays : daySeqs, startDate : {ToISO(1)},
               sessionLabel : Labels \cup {null, undefined},
               startDatesByDay : {<<>>},
               paymentStatus : PaymentStatuses, paymentMethod : {null}] :
          \/ v.frequency = "ONCE_A_WEEK" /\ Len(v.selectedDays) <= 1
          \/ v.frequency = "TWICE_A_WEEK" /\ Len(v.selectedDays) >= 1}

InitOwed ==
    /\ student \in {t \in InitStudents : t["s2"].session = "SPRING_2026"}
    /\ classSection = Catalogue
    /\ enrollment = <<>>
    /\ resp = NoResp
    /\ students = <<>>
    /\ sections = <<>>
    /\ effects = {"students", "sections"}
    /\ owedArg \in OwedInputs
    /\ owedResult = <<>>
    /\ TableInit

NextOwed == CalculateOwed

SpecOwed == InitOwed /\ [][NextOwed]_vars

-----------------------------------------------------------------------------
(* The enrollment PUT step by step, and the sections GET *)

\* The requests sent to PUT /api/admin/enrollment: moves of s1, and one
\* request for each way the validation can fail.
PutRequests ==
    {[method |-> "PUT", body |-> [studentId |-> "s1", day |-> d, label |-> "A"]] :
        d \in {"Monday", "Thursday", "Tuesday"}}
    \cup {
          [method |-> "GET",
           body |-> [studentId |-> "s1", day |-> "Monday", label |-> "A"]],
          [method |-> "PUT",
           body |-> [studentId |-> undefined, day |-> "Monday", label |-> "A"]],
          [method |-> "PUT",
           body |-> [studentId |-> "s1", day |-> undefined, label |-> "A"]],
          [method |-> "PUT",
           body |-> [studentId |-> "s1", day |-> "Monday", label |-> undefined]],
          [method |-> "PUT",
           body |-> [studentId |-> "s9", day |-> "Monday", label |-> "A"]]}

\* The answer a call gives when it ends.
PutAnswer(call, status, body) ==
    [op |-> "PUT /api/admin/enrollment", req |-> call.body, status |-> status,
     body |-> body]

\* enrollment.ts lines 5-41: the method and body tests, the student lookup and
\* the target lookup. Student and ClassSection rows are never written, so the
\* two reads are taken in one step. An error is answered here; otherwise the
\* call goes on to its UPDATE with the target it found.
PutLookup(c) ==
    /\ calls[c].pc = "idle"
    /\ \E r \in PutRequests :
         \E out \in EnrollmentPut(r.method, r.body, student, classSection,
                                  enrollment) :
           IF out.status # 200
           THEN /\ calls' = [calls EXCEPT ![c] =
                      [pc |-> "done", method |-> r.method, body |-> r.body,
                       targetId |-> undefined, status |-> out.status]]
                /\ enrollment' = out.enrollment
                /\ resp' = PutAnswer(r, out.status, out.body)
           ELSE /\ calls' = [calls EXCEPT ![c] =
                      [pc |-> "update", method |-> r.method, body |-> r.body,
                       targetId |-> out.body.sectionId, status |-> 0]]
                /\ UNCHANGED <<enrollment, resp>>
    /\ UNCHANGED <<student, classSection, students, sections, effects,
                   owedArg, owedResult, tableState>>

\* enrollment.ts lines 47-56: the UPDATE and the test of its row count; with
\* rows updated the call answers 200 (line 69).
PutUpdate(c) ==
    /\ calls[c].pc = "update"
    /\ LET id == calls[c].body.studentId
           updated == UpdatedCount(enrollment, id)
       IN /\ enrollment' = UpdateEnrollment(enrollment, id, calls[c].targetId)
          /\ IF updated = 0
             THEN /\ calls' = [calls EXCEPT ![c].pc = "insert"]
                  /\ UNCHANGED resp
             ELSE /\ calls' = [calls EXCEPT ![c].pc = "done",
                                            ![c].status = 200]
                  /\ resp' = PutAnswer(calls[c], 200,
                                 [ok |-> TRUE, sectionId |-> calls[c].targetId])
    /\ UNCHANGED <<student, classSection, students, sections, effects,
                   owedArg, owedResult, tableState>>

\* enrollment.ts lines 57-69: the INSERT, then the 200 answer.
PutInsert(c) ==
    /\ calls[c].pc = "insert"
    /\ enrollment' = InsertEnrollment(enrollment, calls[c].body.studentId,
                                      calls[c].targetId)
    /\ calls' = [calls EXCEPT ![c].pc = "done", ![c].status = 200]
    /\ resp' = PutAnswer(calls[c], 200,
                         [ok |-> TRUE, sectionId |-> calls[c].targetId])
    /\ UNCHANGED <<student, classSection, students, sections, effects,
                   owedArg, owedResult, tableState>>

\* GET /api/admin/sections (sections.ts) from any client.
SectionsGET ==
    /\ \E order \in SectionOrders(classSection) :
          resp' = [op |-> "GET /api/admin/sections", req |-> <<>>,
                   status |-> 200,
                   body |-> SectionsData(classSection, enrollment, order)]
    /\ UNCHANGED <<student, classSection, enrollment, students, sections,
                   effects, owedArg, owedResult, calls, tableState>>

\* The handler with a session: WHERE session = CAST(${session} AS "Session")
\* keeps the sections of that session, and of none when there is no session.
SectionsOfSession(secs, session) ==
    [id \in {x \in DOMAIN secs : secs[x].session = session} |-> secs[id]]

\* The count of the handler with a session: ACTIVE rows joined with the
\* sections of the session.
EnrolledInSession(enr, secs, session, id) ==
    Cardinality({i \in DOMAIN enr :
                    /\ enr[i].sectionId = id
                    /\ enr[i].status = "ACTIVE"
                    /\ enr[i].sectionId \in DOMAIN secs
                    /\ secs[enr[i].sectionId].session = session})

SessionSectionDTO(s, enr, secs, session) ==
    [id |-> s.id, location |-> s.location, day |-> s.day, label |-> s.label,
     startDate |-> IF s.startDate = NoDate THEN null ELSE ToISO(s.startDate),
     enrolled |-> EnrolledInSession(enr, secs, session, s.id),
     capacity |-> SectionCapacity(s),
     isFull |-> SectionIsFull(EnrolledInSession(enr, secs, session, s.id),
                              SectionCapacity(s))]

SessionSectionsData(secs, enr, session, order) ==
    [i \in DOMAIN order |-> SessionSectionDTO(secs[order[i]], enr, secs, session)]

\* GET of the sections of one session, from any client.
SessionSectionsGET ==
    /\ \E session \in {"SPRING_2026", "FALL_2025", undefined} :
         \E order \in SectionOrders(SectionsOfSession(classSection, session)) :
           resp' = [op |-> "GET /api/admin/sections?session", req |-> session,
                    status |-> 200,
                    body |-> SessionSectionsData(classSection, enrollment,
                                                 session, order)]
    /\ UNCHANGED <<student, classSection, enrollment, students, sections,
                   effects, owedArg, owedResult, calls, tableState>>

\* The student the registration site has not enrolled yet.
Unenrolled == "s1"

\* The server on its own: s1 has no Enrollment row, s2 has any rows.
InitEnroll ==
    /\ student \in {t \in InitStudents : t["s2"].session = "SPRING_2026"}
    /\ classSection = Catalogue
    /\ enrollment \in {e \in InitEnrollments(student, classSection) :
                          \A i \in DOMAIN e : e[i].studentId # Unenrolled}
    /\ resp = NoResp
    /\ students = <<>>
    /\ sections = <<>>
    /\ effects = {"students", "sections"}
    /\ owedArg = NoView
    /\ owedResult = <<>>
    /\ TableInit

NextEnroll ==
    \/ \E c \in DOMAIN calls : PutLookup(c)
    \/ \E c \in DOMAIN calls : PutUpdate(c)
    \/ \E c \in DOMAIN calls : PutInsert(c)
    \/ SectionsGET
    \/ SessionSectionsGET

SpecEnroll == InitEnroll /\ [][NextEnroll]_vars

-----------------------------------------------------------------------------
(* StudentsTable: the section editor *)

\* const next = {...prev}; delete next[id]; return next
DropKey(m, k) == [x \in DOMAIN m \ {k} |-> m[x]]

\* A sequence without its k-th element.
RemoveAt(s, k) == SubSeq(s, 1, k - 1) \o SubSeq(s, k + 1, Len(s))

\* (pendingMove[s.id]?.day) || s.selectedDays?.[0]
ChosenDay(pending, s) ==
    IF s.id \in DOMAIN pending THEN pending[s.id].day
    ELSE IF Len(s.selectedDays) > 0 THEN s.selectedDays[1] ELSE undefined

\* (pendingMove[s.id]?.label) || (s.sessionLabel ?? 'A')
ChosenLabel(pending, s) ==
    IF s.id \in DOMAIN pending THEN pending[s.id].label
    ELSE IF s.sessionLabel = null THEN "A" ELSE s.sessionLabel

\* sectionsFor(loc, day).find(o => o.label === label), then !!meta?.isFull
SoldOut(metas, loc, day, label) ==
    LET meta == FindSectionMeta(metas, loc, day, label)
    IN IF meta = NoSectionMeta THEN FALSE ELSE meta.isFull

\* The Day selector's onChange.
ChooseDay ==
    /\ \E i \in DOMAIN students :
         \E day \in SeqToSet(dayOptionsFor(students[i].location)) :
           pendingMove' = MapSet(pendingMove, students[i].id,
                                 [day |-> day,
                                  label |-> ChosenLabel(pendingMove, students[i])])
    /\ UNCHANGED <<student, classSection, enrollment, resp, students, sections,
                   effects, owedArg, owedResult, calls, movingId, moveCall,
                   pendingStatus, savingId, statusCall>>

\* The Section selector's onChange; a sold-out option is disabled.
ChooseSection ==
    /\ \E i \in DOMAIN students :
         \E label \in Labels :
           LET s == students[i]
               day == ChosenDay(pendingMove, s)
           IN /\ ~SoldOut(sections, s.location, day, label)
              /\ pendingMove' = MapSet(pendingMove, s.id,
                                       [day |-> day, label |-> label])
    /\ UNCHANGED <<student, classSection, enrollment, resp, students, sections,
                   effects, owedArg, owedResult, calls, movingId, moveCall,
                   pendingStatus, savingId, statusCall>>

\* Save Change, up to its await: the choice is read, movingId is set and
\* onMoveSection is called; handleMoveSection sends the PUT and keeps the
\* `sections` of the render it was made in.
SaveChangeClick ==
    /\ Len(moveCall) < MaxClicks
    /\ \E i \in DOMAIN students :
         LET s == students[i] IN
           /\ movingId # s.id
           /\ movingId' = s.id
           /\ moveCall' = Append(moveCall,
                  [studentId |-> s.id, day |-> ChosenDay(pendingMove, s),
                   label |-> ChosenLabel(pendingMove, s),
                   sections |-> sections])
    /\ UNCHANGED <<student, classSection, enrollment, resp, students, sections,
                   effects, owedArg, owedResult, calls, pendingMove,
                   pendingStatus, savingId, statusCall>>

\* A pendingMove that loses the entry however the request ended.
PendingMoveAfterAlwaysDropped(pending, id, status) == DropKey(pending, id)

\* pendingMove after onMoveSection settled: the entry is deleted when the
\* await returned, and kept when it threw.
PendingMoveAfter(pending, id, status) ==
    IF status = 200 THEN DropKey(pending, id) ELSE pending

\* Save Change, from its await on: the server handles the PUT; on 200
\* handleMoveSection updates `students` and the click deletes the pending
\* choice; on any other status axios rejects; finally movingId is null.
SaveChangeDone ==
    /\ \E k \in DOMAIN moveCall :
         LET call == moveCall[k]
             body == [studentId |-> call.studentId, day |-> call.day,
                      label |-> call.label]
         IN \E out \in EnrollmentPut("PUT", body, student, classSection,
                                     enrollment) :
              /\ enrollment' = out.enrollment
              /\ resp' = [op |-> "PUT /api/admin/enrollment", req |-> body,
                          status |-> out.status, body |-> out.body]
              /\ students' = IF out.status = 200
                             THEN MoveInState(students, call.sections,
                                              call.studentId, call.day,
                                              call.label)
                             ELSE students
              /\ pendingMove' = PendingMoveAfter(pendingMove, call.studentId,
                                                 out.status)
              /\ moveCall' = RemoveAt(moveCall, k)
    /\ movingId' = null
    /\ UNCHANGED <<student, classSection, sections, effects, owedArg,
                   owedResult, calls, pendingStatus, savingId, statusCall>>

\* The page with its section editor, over ACTIVE enrollments; s2 is a student
\* of another session, so the table shows the row of s1.
InitMove ==
    /\ student \in {t \in InitStudents : t["s2"].session = "FALL_2025"}
    /\ classSection = Catalogue
    /\ enrollment \in {e \in InitEnrollments(student, classSection) :
                          \A i \in DOMAIN e : e[i].status = "ACTIVE"}
    /\ resp = NoResp
    /\ students = <<>>
    /\ sections = <<>>
    /\ effects = {"students", "sections"}
    /\ owedArg = NoView
    /\ owedResult = <<>>
    /\ TableInit

NextMove ==
    \/ LoadStudents
    \/ LoadSections
    \/ ChooseDay
    \/ ChooseSection
    \/ SaveChangeClick
    \/ SaveChangeDone

SpecMove == InitMove /\ [][NextMove]_vars

-----------------------------------------------------------------------------
(* StudentsTable: the payment-status editor *)

\* Every outcome of a students PUT: what the handler computes, or, once the
\* id test has passed, the catch's 500 when prisma.student.update throws
\* (the database cannot be reached).
StudentsPutOutcomes(body, tbl) ==
    {StudentsPut(body, tbl)}
    \cup (IF Truthy(body.id)
          THEN {[status |-> 500, body |-> [error |-> "Server error"],
                 student |-> tbl]}
          ELSE {})

\* A setStudents that gives the new status to every student.
StatusInStateAll(prev, id, newStatus) ==
    [i \in DOMAIN prev |-> [prev[i] EXCEPT !.paymentStatus = newStatus]]

\* setStudents(prev => prev.map(s => s.id === id ? {...s, paymentStatus} : s))
StatusInState(prev, id, newStatus) ==
    [i \in DOMAIN prev |->
        IF prev[i].id = id THEN [prev[i] EXCEPT !.paymentStatus = newStatus]
        ELSE prev[i]]

\* The status selector's onChange.
ChooseStatus ==
    /\ \E i \in DOMAIN students :
         \E st \in PaymentStatuses :
           pendingStatus' = MapSet(pendingStatus, students[i].id, st)
    /\ UNCHANGED <<student, classSection, enrollment, resp, students, sections,
                   effects, owedArg, owedResult, calls, pendingMove, movingId,
                   moveCall, savingId, statusCall>>

\* Save, up to its await: newStatus is read, savingId is set and
\* onStatusUpdate (handleStatusUpdate) sends the PUT.
SaveClick ==
    /\ Len(statusCall) < MaxClicks
    /\ \E i \in DOMAIN students :
         LET s == students[i] IN
           /\ savingId # s.id
           /\ savingId' = s.id
           /\ statusCall' = Append(statusCall,
                  [id |-> s.id,
                   newStatus |-> IF s.id \in DOMAIN pendingStatus
                                 THEN pendingStatus[s.id]
                                 ELSE s.paymentStatus])
    /\ UNCHANGED <<student, classSection, enrollment, resp, students, sections,
                   effects, owedArg, owedResult, calls, pendingMove, movingId,
                   moveCall, pendingStatus>>

\* Save, from its await on: the server handles the PUT; handleStatusUpdate
\* updates `students` on 200 and catches the rejection otherwise, so it
\* returns either way; the click then deletes the pending status, and
\* finally savingId is null.
SaveDone ==
    /\ \E k \in DOMAIN statusCall :
         LET call == statusCall[k]
             body == [id |-> call.id, paymentStatus |-> call.newStatus,
                      paymentMethod |-> undefined]
         IN \E out \in StudentsPutOutcomes(body, student) :
              /\ student' = out.student
              /\ resp' = [op |-> "PUT /api/admin/students", req |-> body,
                          status |-> out.status, body |-> out.body]
              /\ students' = IF out.status = 200
                             THEN StatusInState(students, call.id,
                                                call.newStatus)
                             ELSE students
              /\ pendingStatus' = DropKey(pendingStatus, call.id)
              /\ statusCall' = RemoveAt(statusCall, k)
    /\ savingId' = null
    /\ UNCHANGED <<classSection, enrollment, sections, effects, owedArg,
                   owedResult, calls, pendingMove, movingId, moveCall>>

\* The page with its payment-status editor and both students in the table;
\* s1 is not enrolled yet or has one ACTIVE enrollment, s2 has none.
InitStatus ==
    /\ student \in {t \in InitStudents : t["s2"].session = "SPRING_2026"}
    /\ classSection = Catalogue
    /\ enrollment \in {e \in InitEnrollments(student, classSection) :
                          /\ Len(e) <= 1
                          /\ \A i \in DOMAIN e : /\ e[i].status = "ACTIVE"
                                                 /\ e[i].studentId = "s1"
                                                 /\ e[i].sectionId \in {"c2", "c3"}}
    /\ resp = NoResp
    /\ students = <<>>
    /\ sections = <<>>
    /\ effects = {"students", "sections"}
    /\ owedArg = NoView
    /\ owedResult = <<>>
    /\ TableInit

NextStatus ==
    \/ LoadStudents
    \/ ChooseStatus
    \/ SaveClick
    \/ SaveDone

SpecStatus == InitStatus /\ [][NextStatus]_vars

-----------------------------------------------------------------------------
(* Properties *)

GetAnswered == resp.op = "GET /api/admin/students" /\ resp.status = 200

MoveAnswered == resp.op = "PUT /api/admin/enrollment" /\ resp.status = 200

\* The Enrollment rows (positions) of a student, and those that are ACTIVE.
RowsOf(id) == {i \in DOMAIN enrollment : enrollment[i].studentId = id}

SectionOfRow(i) == classSection[enrollment[i].sectionId]

\* The enrollments the students GET is about: those in a section of the
\* session it serves, SPRING_2026.
JoinedRowsOf(id) ==
    {i \in RowsOf(id) : SectionOfRow(i).session = "SPRING_2026"}

ActiveJoinedRowsOf(id) ==
    {i \in JoinedRowsOf(id) : enrollment[i].status = "ACTIVE"}

\* Monday before Tuesday before Wednesday before Thursday before Friday.
WeekdayIndex(d) ==
    CASE d = "Monday" -> 1 [] d = "Tuesday" -> 2 [] d = "Wednesday" -> 3
      [] d = "Thursday" -> 4 [] d = "Friday" -> 5 [] OTHER -> 0

InWeekdayOrder(days) ==
    \A i, j \in DOMAIN days :
        i < j => /\ WeekdayIndex(days[i]) > 0
                 /\ WeekdayIndex(days[i]) < WeekdayIndex(days[j])

\* C1 (as claimed): for every student with at least one enrollment row, the
\* selectedDays the students GET returns is exactly the set of days of the
\* student's ACTIVE enrollments, without repetition and in weekday order.
C1_SelectedDaysAreActiveDays ==
    GetAnswered =>
      \A k \in DOMAIN resp.body :
        LET v == resp.body[k] IN
          JoinedRowsOf(v.id) # {} =>
            /\ SeqToSet(v.selectedDays) =
                 {SectionOfRow(i).day : i \in ActiveJoinedRowsOf(v.id)}
            /\ InWeekdayOrder(v.selectedDays)

ActiveWithLabel(id, l) ==
    Cardinality({i \in ActiveJoinedRowsOf(id) : SectionOfRow(i).label = l})

\* C2 (as claimed): for every student with enrollment rows (here: with an
\* active one, so that there is a majority to speak of), sessionLabel is the
\* label most of the student's active enrollments carry, and 'A' when as many
\* carry A as B.
C2_SessionLabelIsActiveMajority ==
    GetAnswered =>
      \A k \in DOMAIN resp.body :
        LET v == resp.body[k]
            a == ActiveWithLabel(v.id, "A")
            b == ActiveWithLabel(v.id, "B")
        IN ActiveJoinedRowsOf(v.id) # {} =>
             v.sessionLabel = (IF a >= b THEN "A" ELSE "B")

\* The key calculateOwed is claimed to look up: the first selected day when
\* the frequency is ONCE_A_WEEK, 'both' when it is TWICE_A_WEEK.
ClaimedKey(s) ==
    IF s.frequency = "ONCE_A_WEEK"
    THEN (IF Len(s.selectedDays) > 0 THEN s.selectedDays[1] ELSE undefined)
    ELSE "both"

ClaimedRow(s) ==
    prices[s.location][IF s.sessionLabel \in Labels THEN s.sessionLabel ELSE "A"]

\* C3 (as claimed): calculateOwed is 0 for a PAID student and otherwise the
\* price-table entry at (location, label or A, first day or 'both'); a student
\* with no selected day has no first day and is left out.
C3_OwedIsTableEntry ==
    (owedResult # <<>> /\ ClaimedKey(owedArg) # undefined) =>
      IF owedArg.paymentStatus = "PAID" THEN owedResult[1] = 0
      ELSE /\ ClaimedKey(owedArg) \in DOMAIN ClaimedRow(owedArg)
           /\ owedResult[1] = ClaimedRow(owedArg)[ClaimedKey(owedArg)]

\* C3 (amended): calculateOwed is 0 for a PAID student; otherwise it is the
\* price-table entry at (location, label or A, key), or 0 when the table has no
\* entry there, the key being the first selected day (Monday when no day is
\* selected) for ONCE_A_WEEK and 'both' for TWICE_A_WEEK.
C3_OwedIsTableEntryOrZero ==
    owedResult # <<>> =>
      LET key == IF ClaimedKey(owedArg) = undefined THEN "Monday"
                 ELSE ClaimedKey(owedArg)
          row == ClaimedRow(owedArg)
      IN owedResult[1] =
           (IF owedArg.paymentStatus = "PAID" THEN 0
            ELSE IF key \in DOMAIN row THEN row[key] ELSE 0)

\* C3's case: an unpaid once-a-week student whose day has a price.
C3_Witness ==
    /\ owedResult # <<>>
    /\ owedArg.paymentStatus # "PAID"
    /\ owedArg.frequency = "ONCE_A_WEEK"
    /\ owedArg.location = "SUGARLAND"
    /\ owedArg.sessionLabel = null
    /\ owedArg.selectedDays = <<"Thursday">>
    /\ owedResult[1] = 245

\* C4 (as claimed): when startDatesByDay is not empty, startDate is the
\* earliest of its values.
C4_StartDateIsEarliestPerDay ==
    GetAnswered =>
      \A k \in DOMAIN resp.body :
        LET v == resp.body[k]
            perDay == {FromISO(v.startDatesByDay[d]) :
                         d \in DOMAIN v.startDatesByDay}
        IN perDay # {} =>
             /\ FromISO(v.startDate) \in perDay
             /\ \A t \in perDay : FromISO(v.startDate) <= t

\* C5: in every view of the students GET, frequency is TWICE_A_WEEK exactly
\* when the returned selectedDays holds two or more days, and ONCE_A_WEEK
\* otherwise, whatever the Student row stores.
C5_FrequencyFollowsDays ==
    GetAnswered =>
      \A k \in DOMAIN resp.body :
        LET v == resp.body[k] IN
          /\ v.frequency \in {"ONCE_A_WEEK", "TWICE_A_WEEK"}
          /\ v.frequency = "TWICE_A_WEEK" <=> Len(v.selectedDays) >= 2

\* C5's case: a view whose frequency differs from the stored one, and a view
\* with two days.
C5_Witness ==
    /\ GetAnswered
    /\ \E k \in DOMAIN resp.body :
         /\ student[resp.body[k].id].frequency = "TWICE_A_WEEK"
         /\ resp.body[k].frequency = "ONCE_A_WEEK"
         /\ Len(resp.body[k].selectedDays) = 1
         /\ RowsOf(resp.body[k].id) # {}

\* The section has the location of the student and the day and label of
\* the request.
IsRequested(sec, req) ==
    /\ sec.location = student[req.studentId].location
    /\ sec.day = req.day
    /\ sec.label = req.label

\* C6 (as claimed): after the enrollment PUT answers 200, the student has at
\* least one Enrollment row, every row of the student points at a section
\* with the student's location, the requested day and the requested label,
\* and the answer names such a section.
C6_MovePointsAtTarget ==
    MoveAnswered =>
      LET id == resp.req.studentId
          target == resp.body.sectionId
      IN /\ RowsOf(id) # {}
         /\ target \in DOMAIN classSection
         /\ IsRequested(classSection[target], resp.req)
         /\ \A i \in RowsOf(id) : IsRequested(SectionOfRow(i), resp.req)

\* C7: the answer of the students GET is the same for every order in which
\* the join rows are delivered.
C7_OrderIndependent ==
    GetAnswered =>
      \A joined \in Perms(JoinedRows(enrollment, classSection)) :
        StudentsData(student, joined) = resp.body

\* C7's case: two join rows of one student on the same day with different
\* start dates, so that the order of delivery decides which is met first.
C7_Witness ==
    /\ GetAnswered
    /\ \E i, j \in DOMAIN enrollment :
         /\ enrollment[i].studentId = enrollment[j].studentId
         /\ SectionOfRow(i).session = "SPRING_2026"
         /\ SectionOfRow(j).session = "SPRING_2026"
         /\ SectionOfRow(i).day = SectionOfRow(j).day
         /\ SectionOfRow(i).startDate # NoDate
         /\ SectionOfRow(j).startDate # NoDate
         /\ SectionOfRow(i).startDate # SectionOfRow(j).startDate

PaymentAnswered(r) == r.op = "PUT /api/admin/students" /\ r.status = 200

\* C8: a students PUT that answers 200 changes only paymentStatus (when the
\* body has one) and paymentMethod (when the body has one) of the student
\* named; the student's other fields, the other students and every Enrollment
\* and ClassSection row stay as they were; a body with neither field changes
\* nothing and is answered 200.
C8_PaymentPutFrame ==
    [][/\ PaymentAnswered(resp') =>
            LET b == resp'.req IN
              /\ b.id \in DOMAIN student
              /\ DOMAIN student' = DOMAIN student
              /\ \A id \in DOMAIN student \ {b.id} : student'[id] = student[id]
              /\ \A f \in DOMAIN student[b.id] \ {"paymentStatus", "paymentMethod"} :
                    student'[b.id][f] = student[b.id][f]
              /\ student'[b.id].paymentStatus =
                   (IF b.paymentStatus # undefined THEN b.paymentStatus
                    ELSE student[b.id].paymentStatus)
              /\ student'[b.id].paymentMethod =
                   (IF b.paymentMethod # undefined THEN b.paymentMethod
                    ELSE student[b.id].paymentMethod)
              /\ enrollment' = enrollment
              /\ classSection' = classSection
       /\ (/\ resp'.op = "PUT /api/admin/students"
           /\ resp'.req.id \in DOMAIN student
           /\ resp'.req.paymentStatus = undefined
           /\ resp'.req.paymentMethod = undefined)
          => resp'.status = 200 /\ student' = student]_vars

\* C8's case: a PUT with a status and no method on a student whose method
\* had been set.
C8_Witness ==
    /\ PaymentAnswered(resp)
    /\ resp.req.paymentStatus = "PAID"
    /\ resp.req.paymentMethod = undefined
    /\ student[resp.req.id].paymentMethod = "CASH"
    /\ enrollment # <<>>

DaysEnrolled(id) == {SectionOfRow(i).day : i \in RowsOf(id)}

\* C9 (as claimed): a move of a student enrolled on two days, for one of
\* these days, leaves the student's enrollment for the other day unchanged.
C9_MoveKeepsOtherDay ==
    [][(/\ resp'.op = "PUT /api/admin/enrollment"
        /\ resp'.status = 200
        /\ Cardinality(DaysEnrolled(resp'.req.studentId)) = 2
        /\ resp'.req.day \in DaysEnrolled(resp'.req.studentId))
       => \A i \in RowsOf(resp'.req.studentId) :
            SectionOfRow(i).day # resp'.req.day
              => enrollment'[i] = enrollment[i]]_vars

\* C10 (as claimed): after a move succeeds, the student's view in the page's
\* state (selectedDays, sessionLabel, frequency, startDate) is the view a
\* fresh students GET computes for that student.
C10_OptimisticEqualsFresh ==
    MoveAnswered =>
      \A joined \in Perms(JoinedRows(enrollment, classSection)) :
        LET fresh == StudentsData(student, joined) IN
          \A i \in DOMAIN students, k \in DOMAIN fresh :
            (students[i].id = resp.req.studentId /\ fresh[k].id = students[i].id)
              => /\ students[i].selectedDays = fresh[k].selectedDays
                 /\ students[i].sessionLabel = fresh[k].sessionLabel
                 /\ students[i].frequency = fresh[k].frequency
                 /\ students[i].startDate = fresh[k].startDate

\* The calls for a student that have been answered 200.
AnsweredFor(id) ==
    {c \in DOMAIN calls : /\ calls[c].pc = "done"
                          /\ calls[c].status = 200
                          /\ calls[c].body.studentId = id}

\* C11 (as claimed): for the student who had no Enrollment row, once every
\* enrollment PUT, overlapping or not, has been answered and one for that
\* student was accepted, the student has exactly one Enrollment row and it
\* points at the target section of one of the accepted requests.
C11_OneRowAfterOverlap ==
    (/\ \A c \in DOMAIN calls : calls[c].pc = "done"
     /\ AnsweredFor(Unenrolled) # {})
    => /\ Cardinality(RowsOf(Unenrolled)) = 1
       /\ \A i \in RowsOf(Unenrolled) :
            \E c \in AnsweredFor(Unenrolled) :
               enrollment[i].sectionId = calls[c].targetId

\* C13: an enrollment PUT answers 405 for a method other than PUT, 400 when
\* studentId, day or label is missing, 404 when the student does not exist and
\* 404 when no ClassSection has the student's location, the day and the label;
\* a call that answers an error has written nothing before, and its answer
\* leaves every Enrollment row as it was.
C13_ErrorsWriteNothing ==
    [][/\ \A c \in DOMAIN calls :
            (calls[c].pc = "idle" /\ calls'[c].pc # "idle") =>
              LET r == calls'[c]
                  b == r.body
                  missing == b.studentId = undefined \/ b.day = undefined
                             \/ b.label = undefined
                  known == b.studentId \in DOMAIN student
                  matching == {id \in DOMAIN classSection :
                      /\ classSection[id].location = student[b.studentId].location
                      /\ classSection[id].day = b.day
                      /\ classSection[id].label = b.label}
              IN /\ r.method # "PUT" => r.pc = "done" /\ r.status = 405
                 /\ (r.method = "PUT" /\ missing)
                      => r.pc = "done" /\ r.status = 400
                 /\ (r.method = "PUT" /\ ~missing /\ ~known)
                      => r.pc = "done" /\ r.status = 404
                 /\ (r.method = "PUT" /\ ~missing /\ known /\ matching = {})
                      => r.pc = "done" /\ r.status = 404
       /\ \A c \in DOMAIN calls :
            (calls[c].pc # "done" /\ calls'[c].pc = "done"
             /\ calls'[c].status # 200) =>
              /\ calls[c].pc = "idle"
              /\ calls'[c].status \in {400, 404, 405}
              /\ resp'.status = calls'[c].status
              /\ enrollment' = enrollment]_vars

\* C13's case: a request for a day with no section was answered 404 while
\* the table held rows and another call stood between its UPDATE and INSERT.
C13_Witness ==
    /\ resp.op = "PUT /api/admin/enrollment"
    /\ resp.status = 404
    /\ resp.req.studentId = "s1"
    /\ resp.req.day = "Tuesday"
    /\ enrollment # <<>>
    /\ \E c \in DOMAIN calls : calls[c].pc = "insert"

SectionsAnswered ==
    /\ resp.op \in {"GET /api/admin/sections", "GET /api/admin/sections?session"}
    /\ resp.status = 200

\* C14: in the answer of the sections GET, with or without a session, each
\* section's enrolled is the number of Enrollment rows with status ACTIVE that
\* point at it, isFull is true exactly when the section has a capacity and
\* enrolled >= capacity, and a section without a capacity is not full.
C14_EnrolledCountsActive ==
    SectionsAnswered =>
      \A k \in DOMAIN resp.body :
        LET d == resp.body[k]
            n == Cardinality({i \in DOMAIN enrollment :
                                 /\ enrollment[i].sectionId = d.id
                                 /\ enrollment[i].status = "ACTIVE"})
        IN /\ d.enrolled = n
           /\ d.isFull = (d.capacity # null /\ n >= d.capacity)
           /\ d.capacity = null => d.isFull = FALSE

\* C14's case: a section with an ACTIVE row and a row of another status, and
\* a section with no row at all.
C14_Witness ==
    /\ SectionsAnswered
    /\ \E k, m \in DOMAIN resp.body :
         /\ resp.body[k].enrolled = 1
         /\ EnrolledAnyStatus(enrollment, resp.body[k].id) = 2
         /\ resp.body[m].enrolled = 0
         /\ EnrolledAnyStatus(enrollment, resp.body[m].id) = 0

\* The valid start dates of a student's joined enrollments on a day.
StartsOn(id, d) ==
    {SectionOfRow(i).startDate :
        i \in {j \in JoinedRowsOf(id) : /\ SectionOfRow(j).day = d
                                        /\ SectionOfRow(j).startDate # NoDate}}

\* C15 (as claimed): in every view of the students GET, the keys of
\* startDatesByDay are exactly the selected days on which the student has an
\* enrollment in a section with a valid start date, and the value at each is
\* the earliest start date among the student's enrollments on that day.
C15_StartDatesByDayPerDay ==
    GetAnswered =>
      \A k \in DOMAIN resp.body :
        LET v == resp.body[k]
            dated == {d \in SeqToSet(v.selectedDays) : StartsOn(v.id, d) # {}}
        IN /\ DOMAIN v.startDatesByDay = dated
           /\ \A d \in dated :
                /\ FromISO(v.startDatesByDay[d]) \in StartsOn(v.id, d)
                /\ \A t \in StartsOn(v.id, d) : FromISO(v.startDatesByDay[d]) <= t

\* The fallback of the students GET for a view with no row in the join.
FallbackHolds(v) ==
    /\ SeqToSet(v.selectedDays) = SeqToSet(student[v.id].selectedDays)
    /\ Len(v.selectedDays) = Len(student[v.id].selectedDays)
    /\ InWeekdayOrder(v.selectedDays)
    /\ v.sessionLabel = null
    /\ DOMAIN v.startDatesByDay = {}
    /\ FromISO(v.startDate) = student[v.id].startDate

ViewsOf(id) == {k \in DOMAIN resp.body : resp.body[k].id = id}

\* C16 (as claimed): a view with no enrollment row in the join has the stored
\* days in weekday order, sessionLabel null, an empty startDatesByDay and the
\* stored startDate; the answer holds exactly one view per Student row.
C16_FallbackAndOneViewPerRow ==
    GetAnswered =>
      /\ \A k \in DOMAIN resp.body :
           JoinedRowsOf(resp.body[k].id) = {} => FallbackHolds(resp.body[k])
      /\ \A id \in DOMAIN student : Cardinality(ViewsOf(id)) = 1

\* C16 (amended): the same fallback; the answer holds exactly one view per
\* Student row whose session is SPRING_2026 and no view of any other row.
C16_FallbackAndOneViewPerSpringRow ==
    GetAnswered =>
      /\ \A k \in DOMAIN resp.body :
           /\ resp.body[k].id \in DOMAIN student
           /\ JoinedRowsOf(resp.body[k].id) = {} => FallbackHolds(resp.body[k])
      /\ \A id \in DOMAIN student :
           Cardinality(ViewsOf(id)) =
             (IF student[id].session = "SPRING_2026" THEN 1 ELSE 0)

\* C16's case: s1 has a row, but in a section of another session, and the
\* stored days are not in weekday order; s2 is a student of another session.
C16_Witness ==
    /\ GetAnswered
    /\ RowsOf("s1") # {}
    /\ JoinedRowsOf("s1") = {}
    /\ student["s1"].selectedDays = <<"Thursday", "Monday">>
    /\ \E k \in ViewsOf("s1") :
         resp.body[k].selectedDays = <<"Monday", "Thursday">>
    /\ student["s2"].session = "FALL_2025"
    /\ ViewsOf("s2") = {}

NoRepeat(days) == \A i, j \in DOMAIN days : i # j => days[i] # days[j]

\* C17 (as claimed): after a successful move, the moved student's
\* selectedDays in the page's state has no repeated day, at most two days and
\* is in weekday order.
C17_MovedDaysWellFormed ==
    [][(resp'.op = "PUT /api/admin/enrollment" /\ resp'.status = 200) =>
         \A i \in DOMAIN students' :
           students'[i].id = resp'.req.studentId =>
             /\ NoRepeat(students'[i].selectedDays)
             /\ Len(students'[i].selectedDays) <= 2
             /\ InWeekdayOrder(students'[i].selectedDays)]_vars

\* The sections GET reports the section `id` as full, for some order of rows.
ReportedFull(id) ==
    \E order \in SectionOrders(classSection) :
      \E k \in DOMAIN order :
        LET d == SectionsData(classSection, enrollment, order)[k]
        IN d.id = id /\ d.isFull

C18_FailedMoveKeepsState ==
    [][(/\ Len(moveCall') < Len(moveCall)
        /\ resp'.op = "PUT /api/admin/enrollment"
        /\ resp'.status # 200)
       => /\ students' = students
          /\ pendingMove' = pendingMove
          /\ movingId' = null]_vars

\* C18's case: a pending choice of s1 was saved, the PUT answered 404, and
\* the choice is still pending with the button enabled again.
C18_Witness ==
    /\ resp.op = "PUT /api/admin/enrollment"
    /\ resp.status = 404
    /\ moveCall = <<>>
    /\ movingId = null
    /\ "s1" \in DOMAIN pendingMove
    /\ pendingMove["s1"].day = resp.req.day
    /\ pendingMove["s1"].label = resp.req.label
    /\ \E i \in DOMAIN students : students[i].id = "s1"

\* A step in which a Save click's request was answered.
SaveSettled == Len(statusCall') < Len(statusCall)

\* C19: the page's students do not change while the students PUT is awaited;
\* when it answers 200 the student with the request's id gets the request's
\* paymentStatus and every other student and field stays as it was; when it
\* fails the students stay as they were.
C19_StatusUpdateFrame ==
    [][/\ Len(statusCall') > Len(statusCall) => students' = students
       /\ (SaveSettled /\ resp'.status # 200) => students' = students
       /\ (SaveSettled /\ resp'.status = 200) =>
            /\ DOMAIN students' = DOMAIN students
            /\ \A i \in DOMAIN students :
                 IF students[i].id = resp'.req.id
                 THEN /\ students'[i].paymentStatus = resp'.req.paymentStatus
                      /\ \A f \in DOMAIN students[i] \ {"paymentStatus"} :
                           students'[i][f] = students[i][f]
                      /\ DOMAIN students'[i] = DOMAIN students[i]
                 ELSE students'[i] = students[i]]_vars

\* C19's case: s1 was saved as PAID while s2 stays PENDING, in the page and
\* in the table.
C19_Witness ==
    /\ PaymentAnswered(resp)
    /\ resp.req.id = "s1"
    /\ student["s1"].paymentStatus = "PAID"
    /\ student["s2"].paymentStatus = "PENDING"
    /\ Len(students) = 2
    /\ students[1].id = "s1" /\ students[1].paymentStatus = "PAID"
    /\ students[2].id = "s2" /\ students[2].paymentStatus = "PENDING"

\* value={pendingStatus[s.id] ?? s.paymentStatus} of a student's selector.
ShownStatus(pending, views, id) ==
    IF id \in DOMAIN pending THEN pending[id]
    ELSE LET i == CHOOSE j \in DOMAIN views : views[j].id = id
         IN views[i].paymentStatus

\* C20 (as claimed): a Save whose update failed has not discarded the
\* pending choice: once the click is settled, the selector of that student
\* still shows the status the admin chose.
C20_PendingKeptOnFailure ==
    [][(SaveSettled /\ resp'.status # 200) =>
          ShownStatus(pendingStatus', students', resp'.req.id)
            = resp'.req.paymentStatus]_vars

====
